---- MODULE Spec2Model ----
(***************************************************************************)
(* The ledger store of bimiTool (src/bimibase.py, class BimiBase): four    *)
(* sqlite tables (accounts, drinks, kings, transacts) and the methods that *)
(* read and write them.  The variables hold the content of the tables as   *)
(* the store has it after the last commit; one action is one method call.  *)
(* The date column of transacts (datetime.now()) is not modelled.          *)
(***************************************************************************)
EXTENDS Integers, Sequences, FiniteSets, TLC

VARIABLES accounts, drinks, kings, transacts, last, allocated, nops

vars == <<accounts, drinks, kings, transacts, last, allocated, nops>>

(***************************************************************************)
(* Bounds of the model: the number of calls in a run and the total number  *)
(* of bottles one consume request asks for.                                *)
(***************************************************************************)
MaxOps == 3

MaxTotal == 3

(***************************************************************************)
(* sys.maxsize, scaled down from 2^63 - 1 so that the transaction ids can  *)
(* reach it.  The value MAXINT + 1 stands for the REAL 9.223372036854776e18*)
(* that sqlite produces when MAX(tid)+1 overflows the 64 bit integer; one  *)
(* more added to that REAL gives the same REAL again.                      *)
(***************************************************************************)
MAXINT == 4

Real63 == MAXINT + 1

\* SQL NULL as returned by MAX(tid) over an empty table (tids are >= 1).
NULL == 0

\* Python None for the optional credit argument; a given credit c is <<c>>.
None == <<>>

\* the values the callers pass
AccountNames == {"Noob", "Testa"}

AccountIds == {1, 2}

DrinkIds == {1, 2}

Credits == {-100, 500}

OptCredits == {None} \cup { <<c>> : c \in {0, 500} }

TransactIds == 1..Real63

\* nspdfek lists: name, sales_price, purchase_price, deposit, bottles_full,
\* bottles_empty, kings
Fanta == <<"Fanta", 100, 85, 15, 1, 1, TRUE>>

Cola == <<"Cola", 120, 90, 10, 2, 0, FALSE>>

DrinkFieldLists == { Fanta, Cola, <<"Fanta", 120, 80, 20, 0, 0, TRUE>> }

\* lists of a wrong length, as a caller of add_drink / set_drink can pass them
BadFieldLists == { <<>>, <<"Cola", 100, 85, 15, 1, 1>> }

RECURSIVE Total(_)
Total(items) == IF items = <<>> THEN 0 ELSE Head(items)[2] + Total(Tail(items))

\* (did, amount) lists: positive amounts, at most MaxTotal bottles in all
ItemLists ==
    { l \in UNION { [1..n -> DrinkIds \X (1..MaxTotal)] : n \in 1..MaxTotal } :
        Total(l) <= MaxTotal }

\* (did, amount) lists as any caller of consume_drinks can pass them: nothing
\* in the method tests an amount, so some amount here is zero or negative
AnyItemLists ==
    { l \in UNION { [1..n -> DrinkIds \X (-1..1)] : n \in 1..2 } :
        \E i \in 1..Len(l) : l[i][2] <= 0 }

(***************************************************************************)
(* Helpers                                                                 *)
(***************************************************************************)
SetMax(S) == CHOOSE x \in S : \A y \in S : y <= x

SetMin(S) == CHOOSE x \in S : \A y \in S : x <= y

\* the store as one value
DB == [accounts |-> accounts, drinks |-> drinks, kings |-> kings, transacts |-> transacts]

EmptyDB == [accounts |-> <<>>, drinks |-> <<>>, kings |-> <<>>, transacts |-> <<>>]

\* SELECT MAX(tid) FROM transacts
MaxTid(t) ==
    IF t = <<>> THEN NULL ELSE SetMax({ t[i].tid : i \in 1..Len(t) })

\* sqlite's MAX(tid)+1: a 64 bit overflow turns the result into a REAL, and a
\* REAL of that size absorbs the +1
SqlPlusOne(m) == IF m >= MAXINT THEN Real63 ELSE m + 1

\* Python's item[0]+1 on the fetched MAX(tid): exact on an int, absorbed by a float
PyPlusOne(m) == IF m = Real63 THEN Real63 ELSE m + 1

\* rowid sqlite gives to a row inserted with a NULL INTEGER PRIMARY KEY
NextRowId(table) ==
    IF DOMAIN table = {} THEN 1 ELSE SetMax(DOMAIN table) + 1

\* table with one more row; tables keyed by rowid are functions on a set of ids
WithRow(table, id, row) ==
    [i \in (DOMAIN table) \cup {id} |-> IF i = id THEN row ELSE table[i]]

WithoutRow(table, id) ==
    [i \in (DOMAIN table) \ {id} |-> table[i]]

Ret(db, result) == [db |-> db, result |-> result]

(***************************************************************************)
(* add_credit: one transacts row (tid, aid, 0, 1, credit); commit.         *)
(***************************************************************************)
\* add_credit without the EXISTS test: VALUES(1, ...) whatever the log holds
add_credit_FirstTid(db, account_id, credit) ==
    LET row == [tid |-> 1, aid |-> account_id, did |-> 0, count |-> 1, value |-> credit]
    IN Ret([db EXCEPT !.transacts = Append(@, row)], "ok")

add_credit(db, account_id, credit) ==
    LET tid == IF db.transacts # <<>> THEN SqlPlusOne(MaxTid(db.transacts)) ELSE 1
        row == [tid |-> tid, aid |-> account_id, did |-> 0, count |-> 1, value |-> credit]
    IN Ret([db EXCEPT !.transacts = Append(@, row)], "ok")

(***************************************************************************)
(* add_account: insert the accounts row, commit, then add_credit for the   *)
(* new rowid when credit is not None.                                      *)
(***************************************************************************)
InsertAccount(db, account_name) ==
    [db EXCEPT !.accounts = WithRow(@, NextRowId(@), account_name)]

add_account(db, account_name, credit) ==
    LET lastrowid == NextRowId(db.accounts)
        db1 == InsertAccount(db, account_name)
    IN IF credit # None
       THEN add_credit(db1, lastrowid, credit[1])
       ELSE Ret(db1, "ok")

(***************************************************************************)
(* add_drink: [None] + nspdfek with deleted=False inserted at position 7;  *)
(* a list that does not give nine bindings makes the INSERT raise.         *)
(***************************************************************************)
\* add_drink, were False inserted one position later, after the kings value
add_drink_FlagsSwapped(db, nspdfek) ==
    IF Len(nspdfek) # 7
    THEN Ret(db, "ProgrammingError")
    ELSE LET row == [name |-> nspdfek[1], sales_price |-> nspdfek[2],
                     purchase_price |-> nspdfek[3], deposit |-> nspdfek[4],
                     bottles_full |-> nspdfek[5], bottles_empty |-> nspdfek[6],
                     deleted |-> nspdfek[7], kings |-> FALSE]
         IN Ret([db EXCEPT !.drinks = WithRow(@, NextRowId(@), row)], "ok")

add_drink(db, nspdfek) ==
    IF Len(nspdfek) # 7
    THEN Ret(db, "ProgrammingError")
    ELSE LET row == [name |-> nspdfek[1], sales_price |-> nspdfek[2],
                     purchase_price |-> nspdfek[3], deposit |-> nspdfek[4],
                     bottles_full |-> nspdfek[5], bottles_empty |-> nspdfek[6],
                     deleted |-> FALSE, kings |-> nspdfek[7]]
         IN Ret([db EXCEPT !.drinks = WithRow(@, NextRowId(@), row)], "ok")

(***************************************************************************)
(* update_king: per item of the request, add the amount to the quaffed of  *)
(* the (aid, did) row, or insert the row when fetchone() finds none.       *)
(***************************************************************************)
KingRows(k, aid, did) == { i \in 1..Len(k) : k[i].aid = aid /\ k[i].did = did }

\* BumpKing, were a row inserted whether or not the pair has one
BumpKing_AlwaysInsert(k, aid, did, amount) ==
    Append(k, [aid |-> aid, did |-> did, quaffed |-> amount])

\* BumpKing, were the amount written over the quaffed of an existing row
BumpKing_Overwrite(k, aid, did, amount) ==
    LET idx == KingRows(k, aid, did)
    IN IF idx # {}
       THEN [i \in 1..Len(k) |->
                IF i \in idx THEN [k[i] EXCEPT !.quaffed = amount] ELSE k[i]]
       ELSE Append(k, [aid |-> aid, did |-> did, quaffed |-> amount])

BumpKing(k, aid, did, amount) ==
    LET idx == KingRows(k, aid, did)
    IN IF idx # {}
       THEN LET actual_quaffed == k[SetMin(idx)].quaffed
            IN [i \in 1..Len(k) |->
                   IF i \in idx THEN [k[i] EXCEPT !.quaffed = actual_quaffed + amount]
                                ELSE k[i]]
       ELSE Append(k, [aid |-> aid, did |-> did, quaffed |-> amount])

\* update_king, were the loop left after its first item
update_king_FirstItemOnly(k, account_id, drink_ids_amounts) ==
    IF drink_ids_amounts = <<>>
    THEN k
    ELSE BumpKing(k, account_id, Head(drink_ids_amounts)[1], Head(drink_ids_amounts)[2])

RECURSIVE update_king(_, _, _)
update_king(k, account_id, drink_ids_amounts) ==
    IF drink_ids_amounts = <<>>
    THEN k
    ELSE LET item == Head(drink_ids_amounts)
         IN update_king(BumpKing(k, account_id, item[1], item[2]),
                        account_id, Tail(drink_ids_amounts))

(***************************************************************************)
(* consume_drinks                                                          *)
(***************************************************************************)
\* CollectInfos, were the loop to skip a did without a drinks row instead of
\* returning
RECURSIVE CollectInfos_SkipMissing(_, _, _)
CollectInfos_SkipMissing(items, drinksTable, infos) ==
    IF items = <<>>
    THEN [found |-> TRUE, infos |-> infos]
    ELSE LET item == Head(items)
             idx == { i \in 1..Len(infos) : infos[i].did = item[1] }
         IN IF item[1] \notin DOMAIN drinksTable
            THEN CollectInfos_SkipMissing(Tail(items), drinksTable, infos)
            ELSE IF idx # {}
                 THEN CollectInfos_SkipMissing(Tail(items), drinksTable,
                        [infos EXCEPT ![SetMin(idx)].amount = @ + item[2]])
                 ELSE CollectInfos_SkipMissing(Tail(items), drinksTable,
                        Append(infos, [did |-> item[1], amount |-> item[2],
                                       sales_price |-> drinksTable[item[1]].sales_price,
                                       bottles_full |-> drinksTable[item[1]].bottles_full,
                                       bottles_empty |-> drinksTable[item[1]].bottles_empty]))

\* CollectInfos, were a repeated did to overwrite the amount instead of adding
RECURSIVE CollectInfos_NoSum(_, _, _)
CollectInfos_NoSum(items, drinksTable, infos) ==
    IF items = <<>>
    THEN [found |-> TRUE, infos |-> infos]
    ELSE LET item == Head(items)
             idx == { i \in 1..Len(infos) : infos[i].did = item[1] }
         IN IF item[1] \notin DOMAIN drinksTable
            THEN [found |-> FALSE, infos |-> infos]
            ELSE IF idx # {}
                 THEN CollectInfos_NoSum(Tail(items), drinksTable,
                        [infos EXCEPT ![SetMin(idx)].amount = item[2]])
                 ELSE CollectInfos_NoSum(Tail(items), drinksTable,
                        Append(infos, [did |-> item[1], amount |-> item[2],
                                       sales_price |-> drinksTable[item[1]].sales_price,
                                       bottles_full |-> drinksTable[item[1]].bottles_full,
                                       bottles_empty |-> drinksTable[item[1]].bottles_empty]))

\* CollectInfos, were a drink marked deleted taken for a missing one
RECURSIVE CollectInfos_DeletedMissing(_, _, _)
CollectInfos_DeletedMissing(items, drinksTable, infos) ==
    IF items = <<>>
    THEN [found |-> TRUE, infos |-> infos]
    ELSE LET item == Head(items)
             idx == { i \in 1..Len(infos) : infos[i].did = item[1] }
         IN IF item[1] \notin DOMAIN drinksTable \/ drinksTable[item[1]].deleted
            THEN [found |-> FALSE, infos |-> infos]
            ELSE IF idx # {}
                 THEN CollectInfos_DeletedMissing(Tail(items), drinksTable,
                        [infos EXCEPT ![SetMin(idx)].amount = @ + item[2]])
                 ELSE CollectInfos_DeletedMissing(Tail(items), drinksTable,
                        Append(infos, [did |-> item[1], amount |-> item[2],
                                       sales_price |-> drinksTable[item[1]].sales_price,
                                       bottles_full |-> drinksTable[item[1]].bottles_full,
                                       bottles_empty |-> drinksTable[item[1]].bottles_empty]))

\* lines 207-224: drink_infos, keyed by did in order of first occurrence; the
\* loop returns at the first did that has no drinks row
RECURSIVE CollectInfos(_, _, _)
CollectInfos(items, drinksTable, infos) ==
    IF items = <<>>
    THEN [found |-> TRUE, infos |-> infos]
    ELSE LET item == Head(items)
             idx == { i \in 1..Len(infos) : infos[i].did = item[1] }
         IN IF item[1] \notin DOMAIN drinksTable
            THEN [found |-> FALSE, infos |-> infos]
            ELSE IF idx # {}
                 THEN CollectInfos(Tail(items), drinksTable,
                        [infos EXCEPT ![SetMin(idx)].amount = @ + item[2]])
                 ELSE CollectInfos(Tail(items), drinksTable,
                        Append(infos, [did |-> item[1], amount |-> item[2],
                                       sales_price |-> drinksTable[item[1]].sales_price,
                                       bottles_full |-> drinksTable[item[1]].bottles_full,
                                       bottles_empty |-> drinksTable[item[1]].bottles_empty]))

\* NewBottlesFull without the branch that writes 0
NewBottlesFull_NoClamp(bottles_full, amount) == bottles_full - amount

\* NewBottlesEmpty, were only the bottles that were full to become empties
NewBottlesEmpty_Available(bottles_full, bottles_empty, amount) ==
    bottles_empty + (IF amount < bottles_full THEN amount ELSE bottles_full)

\* NewBottlesEmpty, were the shortfall added on top of the amount
NewBottlesEmpty_Shortfall(bottles_full, bottles_empty, amount) ==
    bottles_empty + amount + (IF amount - bottles_full > 0 THEN amount - bottles_full ELSE 0)

\* lines 241-250: the bottle counts written for one drink
NewBottlesFull(bottles_full, amount) ==
    IF bottles_full - amount < 0 THEN 0 ELSE bottles_full - amount

NewBottlesEmpty(bottles_full, bottles_empty, amount) ==
    bottles_empty + amount

\* WriteConsumption, were the sales price written as the value unnegated
RECURSIVE WriteConsumption_PositiveValue(_, _, _, _)
WriteConsumption_PositiveValue(db, new_tid, account_id, infos) ==
    IF infos = <<>>
    THEN db
    ELSE LET v == Head(infos)
             row == [tid |-> new_tid, aid |-> account_id, did |-> v.did,
                     count |-> v.amount, value |-> v.sales_price]
             db1 == [db EXCEPT
                       !.transacts = Append(@, row),
                       !.drinks[v.did].bottles_full =
                           NewBottlesFull(v.bottles_full, v.amount),
                       !.drinks[v.did].bottles_empty =
                           NewBottlesEmpty(v.bottles_full, v.bottles_empty, v.amount)]
         IN WriteConsumption_PositiveValue(db1, new_tid, account_id, Tail(infos))

\* lines 237-250: one transacts row and one drinks UPDATE per key of drink_infos
RECURSIVE WriteConsumption(_, _, _, _)
WriteConsumption(db, new_tid, account_id, infos) ==
    IF infos = <<>>
    THEN db
    ELSE LET v == Head(infos)
             row == [tid |-> new_tid, aid |-> account_id, did |-> v.did,
                     count |-> v.amount, value |-> -v.sales_price]
             db1 == [db EXCEPT
                       !.transacts = Append(@, row),
                       !.drinks[v.did].bottles_full =
                           NewBottlesFull(v.bottles_full, v.amount),
                       !.drinks[v.did].bottles_empty =
                           NewBottlesEmpty(v.bottles_full, v.bottles_empty, v.amount)]
         IN WriteConsumption(db1, new_tid, account_id, Tail(infos))

\* lines 206-251: everything up to the first commit
ConsumeLedger(db, account_id, drink_ids_amounts) ==
    LET c == CollectInfos(drink_ids_amounts, db.drinks, <<>>)
        m == MaxTid(db.transacts)
        new_tid == PyPlusOne(m)
    IN IF ~c.found THEN Ret(db, "NotFound")
       ELSE IF m = NULL THEN Ret(db, "TypeError")
       ELSE IF new_tid = MAXINT THEN Ret(db, "maxINT")
       ELSE IF m = MAXINT /\ c.infos # <<>> THEN Ret(db, "OverflowError")
       ELSE Ret(WriteConsumption(db, new_tid, account_id, c.infos), "ok")

\* lines 253-254: update_king and its own commit
ConsumeKings(db, account_id, drink_ids_amounts) ==
    [db EXCEPT !.kings = update_king(@, account_id, drink_ids_amounts)]

consume_drinks(db, account_id, drink_ids_amounts) ==
    LET r == ConsumeLedger(db, account_id, drink_ids_amounts)
    IN IF r.result = "ok"
       THEN Ret(ConsumeKings(r.db, account_id, drink_ids_amounts), "ok")
       ELSE r

(***************************************************************************)
(* del_account, del_drink, set_account_name, set_drink                     *)
(***************************************************************************)
RECURSIVE DeleteWhere(_, _, _)
\* DELETE FROM a row list WHERE the column col = val
DeleteWhere(rows, col, val) ==
    IF rows = <<>>
    THEN <<>>
    ELSE IF Head(rows)[col] = val
         THEN DeleteWhere(Tail(rows), col, val)
         ELSE <<Head(rows)>> \o DeleteWhere(Tail(rows), col, val)

\* del_account without the DELETE FROM kings
del_account_KeepsKings(db, account_id) ==
    Ret([db EXCEPT !.accounts = WithoutRow(@, account_id),
                   !.transacts = DeleteWhere(@, "aid", account_id)], "ok")

del_account(db, account_id) ==
    Ret([db EXCEPT !.accounts = WithoutRow(@, account_id),
                   !.transacts = DeleteWhere(@, "aid", account_id),
                   !.kings = DeleteWhere(@, "aid", account_id)], "ok")

\* del_drink, were the row removed from drinks instead of marked
del_drink_HardDelete(db, drink_id) ==
    Ret([db EXCEPT !.drinks = WithoutRow(@, drink_id)], "ok")

\* del_drink, were the ledger entries of the drink removed with it
del_drink_PurgesLedger(db, drink_id) ==
    IF drink_id \in DOMAIN db.drinks
    THEN Ret([db EXCEPT !.drinks[drink_id].deleted = TRUE,
                        !.drinks[drink_id].kings = FALSE,
                        !.transacts = DeleteWhere(@, "did", drink_id)], "ok")
    ELSE Ret(db, "ok")

\* del_drink, were kings left as it is
del_drink_KeepsTracked(db, drink_id) ==
    IF drink_id \in DOMAIN db.drinks
    THEN Ret([db EXCEPT !.drinks[drink_id].deleted = TRUE], "ok")
    ELSE Ret(db, "ok")

del_drink(db, drink_id) ==
    IF drink_id \in DOMAIN db.drinks
    THEN Ret([db EXCEPT !.drinks[drink_id].deleted = TRUE,
                        !.drinks[drink_id].kings = FALSE], "ok")
    ELSE Ret(db, "ok")

set_account_name(db, account_id, name) ==
    IF account_id \in DOMAIN db.accounts
    THEN Ret([db EXCEPT !.accounts[account_id] = name], "ok")
    ELSE Ret(db, "ok")

\* set_drink, were the UPDATE to write deleted=0 as well
set_drink_Undeletes(db, drink_id, nspdfek) ==
    IF Len(nspdfek) = 0 THEN Ret(db, "IndexError")
    ELSE IF Len(nspdfek) # 7 THEN Ret(db, "nothing done")
    ELSE IF drink_id \notin DOMAIN db.drinks THEN Ret(db, "ok")
    ELSE Ret([db EXCEPT !.drinks[drink_id] =
                 [@ EXCEPT !.name = nspdfek[1], !.sales_price = nspdfek[2],
                           !.purchase_price = nspdfek[3], !.deposit = nspdfek[4],
                           !.bottles_full = nspdfek[5], !.bottles_empty = nspdfek[6],
                           !.deleted = FALSE, !.kings = nspdfek[7]]], "ok")

\* nspdfek[0] = nspdfek[0] raises on the empty list; any other length than 7
\* is logged and nothing is done
set_drink(db, drink_id, nspdfek) ==
    IF Len(nspdfek) = 0 THEN Ret(db, "IndexError")
    ELSE IF Len(nspdfek) # 7 THEN Ret(db, "nothing done")
    ELSE IF drink_id \notin DOMAIN db.drinks THEN Ret(db, "ok")
    ELSE Ret([db EXCEPT !.drinks[drink_id] =
                 [@ EXCEPT !.name = nspdfek[1], !.sales_price = nspdfek[2],
                           !.purchase_price = nspdfek[3], !.deposit = nspdfek[4],
                           !.bottles_full = nspdfek[5], !.bottles_empty = nspdfek[6],
                           !.kings = nspdfek[7]]], "ok")

(***************************************************************************)
(* undo_transaction                                                        *)
(***************************************************************************)
\* SELECT aid, did, count FROM transacts WHERE tid=?
RECURSIVE RowsOfTid(_, _)
RowsOfTid(rows, transact_id) ==
    IF rows = <<>>
    THEN <<>>
    ELSE IF Head(rows).tid = transact_id
         THEN <<Head(rows)>> \o RowsOfTid(Tail(rows), transact_id)
         ELSE RowsOfTid(Tail(rows), transact_id)

\* UndoBottlesEmpty, were the empties left as the consume call wrote them
UndoBottlesEmpty_Kept(bottles_empty, count) == bottles_empty

\* UndoBottlesFull, were the full bottles left as the consume call wrote them
UndoBottlesFull_Kept(bottles_full, count) == bottles_full

\* lines 400-403: the bottle counts written back for one entry
UndoBottlesFull(bottles_full, count) == bottles_full + count

UndoBottlesEmpty(bottles_empty, count) == bottles_empty - count

\* lines 393-403; full_empty[0] raises when the drinks row does not exist
RECURSIVE UndoDrinks(_, _)
UndoDrinks(drinksTable, items) ==
    IF items = <<>>
    THEN [raised |-> FALSE, drinks |-> drinksTable]
    ELSE LET item == Head(items)
         IN IF item.did = 0
            THEN UndoDrinks(drinksTable, Tail(items))
            ELSE IF item.did \notin DOMAIN drinksTable
                 THEN [raised |-> TRUE, drinks |-> drinksTable]
                 ELSE UndoDrinks(
                        [drinksTable EXCEPT
                           ![item.did].bottles_full = UndoBottlesFull(@, item.count),
                           ![item.did].bottles_empty = UndoBottlesEmpty(@, item.count)],
                        Tail(items))

\* UndoKing, were a row that comes down to zero deleted
UndoKing_DropsZero(k, aid, did, count) ==
    LET u == [i \in 1..Len(k) |->
                 IF k[i].aid = aid /\ k[i].did = did
                 THEN [k[i] EXCEPT !.quaffed = @ - count] ELSE k[i]]
        Counts(r) == r.quaffed # 0 \/ r.aid # aid \/ r.did # did
    IN SelectSeq(u, Counts)

\* UndoKing, were the count taken off twice
UndoKing_Twice(k, aid, did, count) ==
    [i \in 1..Len(k) |->
        IF k[i].aid = aid /\ k[i].did = did
        THEN [k[i] EXCEPT !.quaffed = @ - 2 * count] ELSE k[i]]

\* UndoKing, were the kings table left alone
UndoKing_Untouched(k, aid, did, count) == k

\* lines 405-416
UndoKing(k, aid, did, count) ==
    LET idx == KingRows(k, aid, did)
    IN IF idx # {}
       THEN LET actual_quaffed == k[SetMin(idx)].quaffed
            IN [i \in 1..Len(k) |->
                   IF i \in idx THEN [k[i] EXCEPT !.quaffed = actual_quaffed - count]
                                ELSE k[i]]
       ELSE k

RECURSIVE UndoKings(_, _)
UndoKings(k, items) ==
    IF items = <<>>
    THEN k
    ELSE LET item == Head(items)
         IN IF item.did = 0
            THEN UndoKings(k, Tail(items))
            ELSE UndoKings(UndoKing(k, item.aid, item.did, item.count), Tail(items))

undo_transaction(db, transact_id) ==
    LET aids_dids_counts == RowsOfTid(db.transacts, transact_id)
        d == UndoDrinks(db.drinks, aids_dids_counts)
    IN IF d.raised
       THEN Ret([db EXCEPT !.drinks = d.drinks], "TypeError")
       ELSE Ret([db EXCEPT !.drinks = d.drinks,
                           !.kings = UndoKings(@, aids_dids_counts),
                           !.transacts = DeleteWhere(@, "tid", transact_id)], "ok")

(***************************************************************************)
(* The queries: drinks(), transactions(account_id), kings().  ORDER BY      *)
(* fixes the order of rows with different keys only, and MAX() in a GROUP   *)
(* BY takes its bare columns from any row that attains the maximum, so a    *)
(* query is modelled by the set of row lists it can return.                 *)
(***************************************************************************)
\* the names in the order of sqlite's BINARY collation
NameOrder == <<"Cola", "Fanta", "Noob", "Testa">>

NameRank(name) == CHOOSE i \in 1..Len(NameOrder) : NameOrder[i] = name

\* the lists that name every element of S once
PermsOf(S) ==
    { p \in [1..Cardinality(S) -> S] :
        \A i, j \in 1..Cardinality(S) : i # j => p[i] # p[j] }

\* ORDER BY key ASC over the rows S: ascending keys, rows of equal keys in any
\* order
RECURSIVE OrderedBy(_, _)
OrderedBy(S, key) ==
    IF S = {}
    THEN { <<>> }
    ELSE LET m == SetMin({ key[x] : x \in S })
             G == { x \in S : key[x] = m }
         IN { g \o rest : g \in PermsOf(G), rest \in OrderedBy(S \ G, key) }

\* drinks(): did, name, sales_price, purchase_price, deposit, bottles_full,
\* bottles_empty, kings of the rows WHERE deleted=0 ORDER BY name ASC
DrinkRecord(db, did) ==
    [did |-> did, name |-> db.drinks[did].name,
     sales_price |-> db.drinks[did].sales_price,
     purchase_price |-> db.drinks[did].purchase_price,
     deposit |-> db.drinks[did].deposit,
     bottles_full |-> db.drinks[did].bottles_full,
     bottles_empty |-> db.drinks[did].bottles_empty,
     kings |-> db.drinks[did].kings]

\* drinks_rows without WHERE deleted=0
drinks_rows_All(db) ==
    LET sel == DOMAIN db.drinks
        ord == OrderedBy(sel, [d \in sel |-> NameRank(db.drinks[d].name)])
    IN { [i \in 1..Len(o) |-> DrinkRecord(db, o[i])] : o \in ord }

drinks_rows(db) ==
    LET sel == { d \in DOMAIN db.drinks : ~db.drinks[d].deleted }
        ord == OrderedBy(sel, [d \in sel |-> NameRank(db.drinks[d].name)])
    IN { [i \in 1..Len(o) |-> DrinkRecord(db, o[i])] : o \in ord }

\* transactions(account_id): tid, name, count, value of the transacts rows
\* WHERE aid=?, LEFT OUTER JOIN drinks ON did, ORDER BY tid ASC; name is NULL
\* (None here, a name n is <<n>>) when no drinks row has the did
\* TransactionRow, were the join to leave out the drinks marked deleted
TransactionRow_HidesDeleted(db, i) ==
    LET e == db.transacts[i]
    IN [tid |-> e.tid,
        name |-> IF e.did \in DOMAIN db.drinks /\ ~db.drinks[e.did].deleted
                 THEN <<db.drinks[e.did].name>> ELSE None,
        count |-> e.count, value |-> e.value]

TransactionRow(db, i) ==
    LET e == db.transacts[i]
    IN [tid |-> e.tid,
        name |-> IF e.did \in DOMAIN db.drinks THEN <<db.drinks[e.did].name>> ELSE None,
        count |-> e.count, value |-> e.value]

transactions(db, account_id) ==
    LET sel == { i \in 1..Len(db.transacts) : db.transacts[i].aid = account_id }
        ord == OrderedBy(sel, [i \in sel |-> db.transacts[i].tid])
    IN { [i \in 1..Len(o) |-> TransactionRow(db, o[i])] : o \in ord }

\* kings(): SELECT DISTINCT name FROM drinks WHERE kings=1 AND deleted=0
TrackedNames_All(db) == { db.drinks[d].name : d \in DOMAIN db.drinks }

TrackedNames(db) ==
    { db.drinks[d].name :
        d \in { x \in DOMAIN db.drinks : db.drinks[x].kings /\ ~db.drinks[x].deleted } }

\* SUM(k.quaffed) of the group (aid, dname) of kings JOIN drinks ON did
RECURSIVE KingTotal(_, _, _, _)
KingTotal(k, drinksTable, aid, dname) ==
    IF k = <<>> THEN 0
    ELSE (IF /\ Head(k).aid = aid
             /\ Head(k).did \in DOMAIN drinksTable
             /\ drinksTable[Head(k).did].name = dname
          THEN Head(k).quaffed ELSE 0)
         + KingTotal(Tail(k), drinksTable, aid, dname)

\* the groups (aid, dname) of the inner SELECT that JOIN accounts keeps
KingGroups(db) ==
    { g \in { <<db.kings[i].aid, db.drinks[db.kings[i].did].name>> :
                i \in { j \in 1..Len(db.kings) : db.kings[j].did \in DOMAIN db.drinks } } :
        g[2] \in TrackedNames(db) /\ g[1] \in DOMAIN db.accounts }

\* MAX(total) of the groups with the drink name dname
KingMax(db, dname) ==
    SetMax({ KingTotal(db.kings, db.drinks, g[1], dname) :
               g \in { h \in KingGroups(db) : h[2] = dname } })

\* KingWinners, were the account taken from any row of the group
KingWinners_Any(db, dname) ==
    { g[1] : g \in { h \in KingGroups(db) : h[2] = dname } }

\* the accounts whose row the bare column name can come from
KingWinners(db, dname) ==
    { g[1] : g \in { h \in KingGroups(db) :
                        /\ h[2] = dname
                        /\ KingTotal(db.kings, db.drinks, h[1], dname) = KingMax(db, dname) } }

\* (accounts.name, dname, MAX(total)) GROUP BY dname ORDER BY name ASC
kings_rows(db) ==
    LET names == { g[2] : g \in KingGroups(db) }
        picks == { c \in [names -> DOMAIN db.accounts] :
                     \A n \in names : c[n] \in KingWinners(db, n) }
    IN UNION { { [i \in 1..Len(o) |->
                    <<db.accounts[c[o[i]]], o[i], KingMax(db, o[i])>>] :
                 o \in OrderedBy(names, [n \in names |-> NameRank(db.accounts[c[n]])]) } :
               c \in picks }

(***************************************************************************)
(* The state machine: one action per method call.  last records the call   *)
(* just made: the method, how it ended, the transaction ids it allocated   *)
(* and the cases of its arguments; allocated collects every transaction id *)
(* ever allocated; nops counts the calls.                                  *)
(***************************************************************************)
\* tids of the rows that an operation appended to transacts
NewTids(before, after) ==
    { after.transacts[i].tid : i \in (Len(before.transacts) + 1)..Len(after.transacts) }

\* the constructor opens a new store or one that earlier runs have written
SeedA == add_drink(add_account(EmptyDB, "Noob", <<500>>).db, Fanta).db

SeedB == add_drink(add_account(SeedA, "Testa", <<500>>).db, Cola).db

\* a store in which two drinks share one name
SeedC == add_drink(SeedA, <<"Fanta", 120, 80, 20, 0, 0, TRUE>>).db

\* a store whose log has reached the highest integer transaction id
SeedD == add_credit(add_credit(SeedB, 1, 500).db, 2, 500).db

Tids(db) == { db.transacts[i].tid : i \in 1..Len(db.transacts) }

Init ==
    /\ \E db \in {EmptyDB, SeedA, SeedB} :
          /\ accounts = db.accounts
          /\ drinks = db.drinks
          /\ kings = db.kings
          /\ transacts = db.transacts
          /\ allocated = Tids(db)
    /\ last = [op |-> "init", result |-> "ok", tids |-> {}, flags |-> {}]
    /\ nops = 0

\* the same start, with the store of two same-named drinks among the stores
InitNames ==
    /\ \E db \in {EmptyDB, SeedA, SeedB, SeedC} :
          /\ accounts = db.accounts
          /\ drinks = db.drinks
          /\ kings = db.kings
          /\ transacts = db.transacts
          /\ allocated = Tids(db)
    /\ last = [op |-> "init", result |-> "ok", tids |-> {}, flags |-> {}]
    /\ nops = 0

\* the same start, with the store whose log is at MAXINT among the stores
InitLimit ==
    /\ \E db \in {EmptyDB, SeedA, SeedB, SeedD} :
          /\ accounts = db.accounts
          /\ drinks = db.drinks
          /\ kings = db.kings
          /\ transacts = db.transacts
          /\ allocated = Tids(db)
    /\ last = [op |-> "init", result |-> "ok", tids |-> {}, flags |-> {}]
    /\ nops = 0

Store(db) ==
    /\ accounts' = db.accounts
    /\ drinks' = db.drinks
    /\ kings' = db.kings
    /\ transacts' = db.transacts

\* a call that ran to its end (or to the exception that ended it)
Call(op, r, flags) ==
    /\ Store(r.db)
    /\ last' = [op |-> op, result |-> r.result, tids |-> NewTids(DB, r.db), flags |-> flags]
    /\ allocated' = allocated \cup NewTids(DB, r.db)
    /\ nops' = nops + 1

\* the cases of a consume request
ConsumeFlags(db, items) ==
    LET n == Len(items)
        c == CollectInfos(items, db.drinks, <<>>)
    IN  (IF \E i, j \in 1..n : i < j /\ items[i][1] = items[j][1] THEN {"dup"} ELSE {})
        \cup (IF \E i, j, k \in 1..n : i < j /\ j < k /\ items[i][1] = items[k][1]
                                       /\ items[i][1] # items[j][1]
              THEN {"interleaved"} ELSE {})
        \cup (IF ~c.found /\ c.infos # <<>> THEN {"later"} ELSE {})
        \cup (IF c.found THEN {"found"} ELSE {})
        \cup (IF c.found /\ \E i \in 1..Len(c.infos) : c.infos[i].amount > c.infos[i].bottles_full
              THEN {"clamp"} ELSE {})
        \cup (IF c.found /\ \E i \in 1..Len(c.infos) : c.infos[i].amount <= c.infos[i].bottles_full
              THEN {"noclamp"} ELSE {})
        \cup (IF db.transacts = <<>> THEN {"emptylog"} ELSE {})

\* a consume request that follows an undo of drinks and meets a counter row
\* the undo has left in place
ConsumeAfterFlags(db, account_id, items, prev) ==
    IF /\ prev.op = "undo_transaction" /\ prev.result = "ok" /\ "drink" \in prev.flags
       /\ \E i \in 1..Len(items) : KingRows(db.kings, account_id, items[i][1]) # {}
    THEN {"afterundo"} ELSE {}

\* the cases of an undo request: what the entries of transact_id are, whether
\* other entries exist, and whether the call before it was the consume call
\* that wrote transact_id without clamping a drink
UndoFlags(db, transact_id, prev) ==
    LET rows == RowsOfTid(db.transacts, transact_id)
    IN  (IF \E i \in 1..Len(rows) : rows[i].did = 0 THEN {"credit"} ELSE {})
        \cup (IF \E i \in 1..Len(rows) : rows[i].did # 0 THEN {"drink"} ELSE {})
        \cup (IF Len(rows) < Len(db.transacts) THEN {"others"} ELSE {})
        \cup (IF /\ prev.op = "consume_drinks" /\ prev.result = "ok"
                 /\ transact_id \in prev.tids /\ "clamp" \notin prev.flags
              THEN {"roundtrip"} ELSE {})
        \cup (IF /\ prev.op = "consume_drinks" /\ prev.result = "ok"
                 /\ transact_id \in prev.tids /\ "clamp" \in prev.flags
              THEN {"clampedtrip"} ELSE {})

\* the cases of a del_account request: what the account owns, what others own
DelAccountFlags(db, account_id) ==
    (IF account_id \in DOMAIN db.accounts THEN {"account"} ELSE {})
    \cup (IF \E i \in 1..Len(db.transacts) : db.transacts[i].aid = account_id
          THEN {"ledger"} ELSE {})
    \cup (IF \E i \in 1..Len(db.kings) : db.kings[i].aid = account_id
          THEN {"kings"} ELSE {})
    \cup (IF /\ \E i \in 1..Len(db.transacts) : db.transacts[i].aid # account_id
             /\ \E i \in 1..Len(db.kings) : db.kings[i].aid # account_id
          THEN {"others"} ELSE {})

\* the cases of a del_drink request
DelDrinkFlags(db, drink_id) ==
    (IF drink_id \in DOMAIN db.drinks /\ db.drinks[drink_id].kings
     THEN {"tracked"} ELSE {})
    \cup (IF \E i \in 1..Len(db.transacts) : db.transacts[i].did = drink_id
          THEN {"referenced"} ELSE {})

\* the cases of a set_drink call
SetDrinkFlags(db, drink_id, nspdfek) ==
    (IF drink_id \in DOMAIN db.drinks THEN {"existing"} ELSE {"missing"})
    \cup (IF drink_id \in DOMAIN db.drinks /\ db.drinks[drink_id].deleted
          THEN {"deleted"} ELSE {})
    \cup (IF Len(nspdfek) = 7 THEN {"seven"} ELSE {})
    \cup (IF nspdfek = <<>> THEN {"empty"} ELSE {})

AddAccount ==
    \E name \in AccountNames, credit \in OptCredits :
        /\ nops < MaxOps
        /\ NextRowId(accounts) \in AccountIds
        /\ Call("add_account", add_account(DB, name, credit), {})

AddCredit ==
    \E account_id \in AccountIds, credit \in Credits :
        /\ nops < MaxOps
        /\ Call("add_credit", add_credit(DB, account_id, credit), {})

AddDrink ==
    \E nspdfek \in DrinkFieldLists \cup BadFieldLists :
        /\ nops < MaxOps
        /\ NextRowId(drinks) \in DrinkIds
        /\ Call("add_drink", add_drink(DB, nspdfek), {})

ConsumeDrinks ==
    \E account_id \in AccountIds, drink_ids_amounts \in ItemLists :
        /\ nops < MaxOps
        /\ Call("consume_drinks", consume_drinks(DB, account_id, drink_ids_amounts),
                ConsumeFlags(DB, drink_ids_amounts)
                    \cup ConsumeAfterFlags(DB, account_id, drink_ids_amounts, last))

DelAccount ==
    \E account_id \in AccountIds :
        /\ nops < MaxOps
        /\ Call("del_account", del_account(DB, account_id),
                DelAccountFlags(DB, account_id))

DelDrink ==
    \E drink_id \in DrinkIds :
        /\ nops < MaxOps
        /\ Call("del_drink", del_drink(DB, drink_id), DelDrinkFlags(DB, drink_id))

SetAccountName ==
    \E account_id \in AccountIds, name \in AccountNames :
        /\ nops < MaxOps
        /\ Call("set_account_name", set_account_name(DB, account_id, name), {})

SetDrink ==
    \E drink_id \in DrinkIds, nspdfek \in DrinkFieldLists \cup BadFieldLists :
        /\ nops < MaxOps
        /\ Call("set_drink", set_drink(DB, drink_id, nspdfek),
                SetDrinkFlags(DB, drink_id, nspdfek))

UndoTransaction ==
    \E transact_id \in TransactIds :
        /\ nops < MaxOps
        /\ Call("undo_transaction", undo_transaction(DB, transact_id),
                UndoFlags(DB, transact_id, last))

\* a query: the store stays as it is
Query(op, flags) ==
    /\ UNCHANGED <<accounts, drinks, kings, transacts, allocated>>
    /\ last' = [op |-> op, result |-> "ok", tids |-> {}, flags |-> flags]
    /\ nops' = nops + 1

\* the cases of a drinks() call
DrinksFlags(db) ==
    (IF \E d \in DOMAIN db.drinks : db.drinks[d].deleted THEN {"deleted"} ELSE {})
    \cup (IF \E d, e \in DOMAIN db.drinks :
               /\ d < e /\ ~db.drinks[d].deleted /\ ~db.drinks[e].deleted
               /\ NameRank(db.drinks[e].name) < NameRank(db.drinks[d].name)
          THEN {"reordered"} ELSE {})

\* the cases of a transactions() call
TransactionsFlags(db, account_id) ==
    LET own == { i \in 1..Len(db.transacts) : db.transacts[i].aid = account_id }
    IN  (IF \E i \in own : db.transacts[i].did = 0 THEN {"credit"} ELSE {})
        \cup (IF \E i \in own : /\ db.transacts[i].did \in DOMAIN db.drinks
                                 /\ db.drinks[db.transacts[i].did].deleted
              THEN {"deleted"} ELSE {})
        \cup (IF \E i, j \in own : i # j /\ db.transacts[i].tid = db.transacts[j].tid
              THEN {"shared"} ELSE {})
        \cup (IF Cardinality(own) < Len(db.transacts) THEN {"others"} ELSE {})

\* the cases of a kings() call
KingsFlags(db) ==
    (IF db.kings # <<>> THEN {"counters"} ELSE {})
    \cup (IF TrackedNames(db) = {} THEN {"untracked"} ELSE {})
    \cup (IF KingGroups(db) # {} THEN {"rows"} ELSE {})
    \cup (IF \E i, j \in 1..Len(db.kings) :
               /\ db.kings[i].aid = db.kings[j].aid
               /\ db.kings[i].did # db.kings[j].did
               /\ <<db.kings[i].aid, db.drinks[db.kings[i].did].name>> \in KingGroups(db)
               /\ db.drinks[db.kings[i].did].name = db.drinks[db.kings[j].did].name
          THEN {"multi"} ELSE {})
    \cup (IF \E g, h \in KingGroups(db) :
               /\ g[2] = h[2]
               /\ KingTotal(db.kings, db.drinks, g[1], g[2])
                    < KingTotal(db.kings, db.drinks, h[1], h[2])
          THEN {"beaten"} ELSE {})

ListDrinks ==
    /\ nops < MaxOps
    /\ drinks_rows(DB) # {}
    /\ Query("drinks", DrinksFlags(DB))

ListTransactions ==
    \E account_id \in AccountIds :
        /\ nops < MaxOps
        /\ transactions(DB, account_id) # {}
        /\ Query("transactions", TransactionsFlags(DB, account_id))

ListKings ==
    /\ nops < MaxOps
    /\ kings_rows(DB) # {}
    /\ Query("kings", KingsFlags(DB))

Next ==
    \/ AddAccount
    \/ AddCredit
    \/ AddDrink
    \/ ConsumeDrinks
    \/ DelAccount
    \/ DelDrink
    \/ SetAccountName
    \/ SetDrink
    \/ UndoTransaction
    \/ ListDrinks
    \/ ListTransactions
    \/ ListKings

Spec == Init /\ [][Next]_vars

SpecNames == InitNames /\ [][Next]_vars

SpecLimit == InitLimit /\ [][Next]_vars

\* consume_drinks called with amounts that are not all positive
ConsumeAnyQuantity ==
    \E account_id \in AccountIds, drink_ids_amounts \in AnyItemLists :
        /\ nops < MaxOps
        /\ Call("consume_drinks", consume_drinks(DB, account_id, drink_ids_amounts),
                ConsumeFlags(DB, drink_ids_amounts) \cup {"nonpositive"})

NextQty ==
    \/ Next
    \/ ConsumeAnyQuantity

SpecQty == Init /\ [][NextQty]_vars

(***************************************************************************)
(* Crashes.  The process dies inside a call; what the store holds when the *)
(* program is started again is what the last commit() before the crash     *)
(* wrote.  commits = the number of commit() calls that ran before the      *)
(* crash.                                                                  *)
(***************************************************************************)
\* consume_drinks commits in line 251 and, inside update_king, in line 450
ConsumeCommitted(db, account_id, drink_ids_amounts, commits) ==
    LET r == ConsumeLedger(db, account_id, drink_ids_amounts)
    IN IF commits = 0 \/ r.result # "ok" THEN db
       ELSE IF commits = 1 THEN r.db
       ELSE ConsumeKings(r.db, account_id, drink_ids_amounts)

\* add_account commits in line 147 and, inside add_credit, in line 170
AddAccountCommitted(db, account_name, credit, commits) ==
    IF commits = 0 THEN db
    ELSE IF commits = 1 \/ credit = None THEN InsertAccount(db, account_name)
    ELSE add_account(db, account_name, credit).db

\* UndoCommitted, were the drinks updates committed on their own before the
\* kings updates and the DELETE
UndoCommitted_DrinksFirst(db, transact_id, commits) ==
    IF commits = 0 THEN db
    ELSE [db EXCEPT !.drinks = UndoDrinks(@, RowsOfTid(db.transacts, transact_id)).drinks]

\* undo_transaction commits once, in line 421
UndoCommitted(db, transact_id, commits) ==
    IF commits = 0 THEN db ELSE undo_transaction(db, transact_id).db

Crashed(op, db, flags) ==
    Call(op, Ret(db, "crash"), flags)

ConsumeCrash ==
    \E account_id \in AccountIds, drink_ids_amounts \in ItemLists, commits \in 0..2 :
        /\ nops < MaxOps
        /\ Crashed("consume_drinks",
                   ConsumeCommitted(DB, account_id, drink_ids_amounts, commits),
                   ConsumeFlags(DB, drink_ids_amounts))

AddAccountCrash ==
    \E name \in AccountNames, credit \in OptCredits, commits \in 0..2 :
        /\ nops < MaxOps
        /\ NextRowId(accounts) \in AccountIds
        /\ Crashed("add_account", AddAccountCommitted(DB, name, credit, commits),
                   IF credit = None THEN {} ELSE {"credit"})

UndoCrash ==
    \E transact_id \in TransactIds, commits \in 0..1 :
        /\ nops < MaxOps
        /\ undo_transaction(DB, transact_id).result = "ok"
        /\ Crashed("undo_transaction", UndoCommitted(DB, transact_id, commits),
                   UndoFlags(DB, transact_id, last)
                     \cup (IF commits = 1 THEN {"committed"} ELSE {}))

NextCrash ==
    \/ Next
    \/ ConsumeCrash
    \/ AddAccountCrash
    \/ UndoCrash

SpecCrash == Init /\ [][NextCrash]_vars

(***************************************************************************)
(* The claims.  Qty, Shortfall and Coalesced restate the request in the    *)
(* words of the specification; they are not taken from the code.           *)
(***************************************************************************)
\* total amount of drink d asked for in a request
RECURSIVE Qty(_, _)
Qty(items, d) ==
    IF items = <<>> THEN 0
    ELSE (IF Head(items)[1] = d THEN Head(items)[2] ELSE 0) + Qty(Tail(items), d)

Shortfall(q, f) == IF q - f > 0 THEN q - f ELSE 0

\* the request with one item per distinct drink, in order of first occurrence
Coalesced(items) ==
    LET firsts == { i \in 1..Len(items) : \A j \in 1..(i - 1) : items[j][1] # items[i][1] }
        nth(k) == CHOOSE i \in firsts : Cardinality({ j \in firsts : j <= i }) = k
    IN [k \in 1..Cardinality(firsts) |-> <<items[nth(k)][1], Qty(items, items[nth(k)][1])>>]

ConsumeDone == last.op = "consume_drinks" /\ last.result = "ok"

\* the step is a completed call consume_drinks(a, items)
ConsumeStep(a, items) ==
    /\ last'.op = "consume_drinks"
    /\ last'.result = "ok"
    /\ consume_drinks(DB, a, items) = Ret(DB', "ok")

\* C1: every newly allocated transaction id is strictly greater than every
\* transaction id allocated before it, so an id freed by undo_transaction or
\* del_account is never assigned again.
C1_TidsNeverReused ==
    [][\A t \in last'.tids : \A u \in allocated : t > u]_vars

\* C2: a crash inside consume_drinks leaves the store either as it was before
\* the call or with the complete effect of the call; never with the ledger and
\* inventory written and the kings update missing.
C2_ConsumeCrashAtomic ==
    [][(last'.op = "consume_drinks" /\ last'.result = "crash")
         => \/ DB' = DB
            \/ \E a \in AccountIds, items \in ItemLists :
                  /\ consume_drinks(DB, a, items).result = "ok"
                  /\ DB' = consume_drinks(DB, a, items).db]_vars

\* C3: a consume request that names a drink id without a drinks row writes
\* nothing (ledger, drinks, kings unchanged, no transaction id allocated), also
\* when the missing id comes after valid ids.
C3_MissingDrinkWritesNothing ==
    \A a \in AccountIds, items \in ItemLists :
        (\E i \in 1..Len(items) : items[i][1] \notin DOMAIN drinks)
            => /\ consume_drinks(DB, a, items) = Ret(DB, "NotFound")
               /\ NewTids(DB, consume_drinks(DB, a, items).db) = {}

C3_Witness ==
    /\ last.op = "consume_drinks"
    /\ last.result = "NotFound"
    /\ "later" \in last.flags
    /\ last.tids = {}

\* C4: on an empty transaction log, consume of existing drinks completes and
\* writes its ledger entries with transaction id 1.
C4_ConsumeOnEmptyLog ==
    (last.op = "consume_drinks" /\ {"emptylog", "found"} \subseteq last.flags)
        => last.result = "ok" /\ last.tids = {1}

\* C5: no ledger entry ever carries a transaction id above MAXINT.
C5_TidWithinMaxint ==
    \A i \in 1..Len(transacts) : transacts[i].tid <= MAXINT

\* C6: bottles_full >= 0 and bottles_empty >= 0 for every drink in every
\* reachable state.
C6_BottlesNonNegative ==
    \A d \in DOMAIN drinks : drinks[d].bottles_full >= 0 /\ drinks[d].bottles_empty >= 0

\* C7 as stated: after a consume call, bottles_full + bottles_empty of every
\* drink is its value before the call plus the quantity of that drink consumed.
C7_SumGrowsByQuantity ==
    [][\A a \in AccountIds, items \in ItemLists :
          ConsumeStep(a, items) =>
             \A d \in DOMAIN drinks :
                 drinks'[d].bottles_full + drinks'[d].bottles_empty
                   = drinks[d].bottles_full + drinks[d].bottles_empty + Qty(items, d)]_vars

\* C7 as amended: after a consume call, bottles_full + bottles_empty of every
\* drink is its value before the call plus the shortfall max(q - bottles_full, 0)
\* of the quantity q of that drink consumed: unchanged when the drink does not
\* clamp, grown by q - bottles_full when it does.
C7_SumGrowsByShortfall ==
    \A a \in AccountIds, items \in ItemLists :
        LET r == consume_drinks(DB, a, items)
        IN r.result = "ok" =>
             \A d \in DOMAIN drinks :
                 r.db.drinks[d].bottles_full + r.db.drinks[d].bottles_empty
                   = drinks[d].bottles_full + drinks[d].bottles_empty
                     + Shortfall(Qty(items, d), drinks[d].bottles_full)

C7_Witness ==
    /\ ConsumeDone
    /\ {"clamp", "noclamp"} \subseteq last.flags

\* C8: consume of total quantity q of a drink holding (f, e) sets
\* bottles_full = max(f - q, 0) and bottles_empty = e + q, clamped or not.
C8_ConsumeBottleCounts ==
    \A a \in AccountIds, items \in ItemLists :
        LET r == consume_drinks(DB, a, items)
        IN r.result = "ok" =>
             \A d \in DOMAIN drinks :
                 Qty(items, d) > 0 =>
                    /\ r.db.drinks[d].bottles_full
                         = (IF drinks[d].bottles_full - Qty(items, d) > 0
                            THEN drinks[d].bottles_full - Qty(items, d) ELSE 0)
                    /\ r.db.drinks[d].bottles_empty
                         = drinks[d].bottles_empty + Qty(items, d)

C8_Witness ==
    /\ ConsumeDone
    /\ "clamp" \in last.flags
    /\ \E d \in DOMAIN drinks : drinks[d].bottles_full = 0 /\ drinks[d].bottles_empty >= 2

\* C9 as stated: consume of quantity q of a drink holding (f, e) sets
\* bottles_empty = e + q + max(q - f, 0).
C9_EmptiesGetShortfallToo ==
    [][\A a \in AccountIds, items \in ItemLists :
          ConsumeStep(a, items) =>
             \A d \in DOMAIN drinks :
                 Qty(items, d) > 0 =>
                    drinks'[d].bottles_empty
                      = drinks[d].bottles_empty + Qty(items, d)
                        + Shortfall(Qty(items, d), drinks[d].bottles_full)]_vars

\* C9 as amended: consume of quantity q of a drink holding (f, e) sets
\* bottles_empty = e + q; when q exceeds the full bottles, the shortfall q - f
\* is not added to bottles_empty on top of q.
C9_EmptiesGetQuantityOnly ==
    \A a \in AccountIds, items \in ItemLists :
        LET r == consume_drinks(DB, a, items)
        IN r.result = "ok" =>
             \A d \in DOMAIN drinks :
                 Qty(items, d) > 0 =>
                    r.db.drinks[d].bottles_empty - drinks[d].bottles_empty = Qty(items, d)

C9_Witness ==
    /\ ConsumeDone
    /\ "clamp" \in last.flags
    /\ "noclamp" \notin last.flags

\* C10: a consume request that lists a drink several times ends in the same
\* state (bottle counts, ledger entries, kings counters) as the request with
\* the quantities of each drink summed into one item, also when the duplicates
\* are interleaved with other drinks.
C10_DuplicatesCoalesce ==
    \A a \in AccountIds, items \in ItemLists :
        consume_drinks(DB, a, items) = consume_drinks(DB, a, Coalesced(items))

C10_Witness ==
    /\ ConsumeDone
    /\ "interleaved" \in last.flags


\* the drink ids a request names
DistinctDrinks(items) == { items[i][1] : i \in 1..Len(items) }

\* the ledger entries that a call appended
Appended(before, after) ==
    SubSeq(after.transacts, Len(before.transacts) + 1, Len(after.transacts))

\* C11: a successful consume call appends exactly one ledger entry per
\* distinct drink id of the request and no other entry; all of them carry the
\* same transaction id (max existing + 1 while the ids of the log are within
\* MAXINT) and the given account id, each with count = the summed quantity of
\* its drink and value = minus the sales price the drink has at the call; the
\* entries that were in the log stay as they are.
C11_ConsumeLedgerEntries ==
    \A a \in AccountIds, items \in ItemLists :
        LET r == consume_drinks(DB, a, items)
            new == Appended(DB, r.db)
        IN r.result = "ok" =>
             /\ SubSeq(r.db.transacts, 1, Len(transacts)) = transacts
             /\ Len(new) = Cardinality(DistinctDrinks(items))
             /\ MaxTid(transacts) <= MAXINT => new[1].tid = MaxTid(transacts) + 1
             /\ \A d \in DistinctDrinks(items) :
                    \E i \in 1..Len(new) :
                        new[i] = [tid |-> new[1].tid, aid |-> a, did |-> d,
                                  count |-> Qty(items, d),
                                  value |-> -drinks[d].sales_price]

\* a consume call of two drinks, one of them listed twice, has written two
\* entries under its transaction id
C11_Witness ==
    /\ ConsumeDone
    /\ "dup" \in last.flags
    /\ Cardinality(last.tids) = 1
    /\ Cardinality({ i \in 1..Len(transacts) : transacts[i].tid \in last.tids }) = 2


\* the rows of the leaderboard table k that count drink d for account a
CounterRows(k, a, d) == { i \in 1..Len(k) : k[i].aid = a /\ k[i].did = d }

\* C12: a successful consume call raises the counter of (account, drink) by
\* the summed quantity for every distinct drink of the request: a row that
\* exists stays where it is with quaffed grown by that quantity, a missing row
\* is inserted once with quaffed = that quantity, and the rows of every other
\* (account, drink) pair are unchanged.
C12_ConsumeBumpsCounters ==
    \A a \in AccountIds, items \in ItemLists :
        LET r == consume_drinks(DB, a, items)
            k2 == r.db.kings
        IN r.result = "ok" =>
             \A x \in AccountIds, d \in DrinkIds :
                 LET q == IF x = a THEN Qty(items, d) ELSE 0
                     before == CounterRows(kings, x, d)
                     after == CounterRows(k2, x, d)
                 IN IF before # {}
                    THEN /\ after = before
                         /\ \A i \in before : k2[i].quaffed = kings[i].quaffed + q
                    ELSE IF q > 0
                         THEN /\ Cardinality(after) = 1
                              /\ \A i \in after : k2[i].quaffed = q
                         ELSE after = {}

\* a consume call has raised a counter that existed and inserted one that did
\* not: of its two entries, one counts less than the counter of its drink, the
\* other as much
C12_Witness ==
    /\ ConsumeDone
    /\ \E i, j \in 1..Len(transacts) :
          /\ transacts[i].tid \in last.tids
          /\ transacts[j].tid \in last.tids
          /\ \E m \in CounterRows(kings, transacts[i].aid, transacts[i].did) :
                 kings[m].quaffed > transacts[i].count
          /\ \E m \in CounterRows(kings, transacts[j].aid, transacts[j].did) :
                 kings[m].quaffed = transacts[j].count


\* no drink of the request clamps: what is asked of it is there in full bottles
NoClamp(items) ==
    \A d \in DistinctDrinks(items) \cap DOMAIN drinks :
        Qty(items, d) <= drinks[d].bottles_full

\* what the leaderboard table k counts for (a, d); nothing counted is 0
RECURSIVE CounterValue(_, _, _)
CounterValue(k, a, d) ==
    IF k = <<>> THEN 0
    ELSE (IF Head(k).aid = a /\ Head(k).did = d THEN Head(k).quaffed ELSE 0)
         + CounterValue(Tail(k), a, d)

\* the ids of the log are integers: none lies above MAXINT
IntegerLog == \A i \in 1..Len(transacts) : transacts[i].tid <= MAXINT

\* C13: round trip.  In a store whose transaction ids are integers, a
\* successful consume call in which no drink clamps, followed at once by undo
\* of its transaction id, gives back every drink row (bottles_full and
\* bottles_empty included), the ledger and the accounts exactly as they were
\* before the consume, and every leaderboard counter at its value before the
\* consume (a counter the consume inserted stays as a row counting 0).
C13_RoundTrip ==
    \A a \in AccountIds, items \in ItemLists :
        LET r == consume_drinks(DB, a, items)
            u == undo_transaction(r.db, Appended(DB, r.db)[1].tid)
        IN (IntegerLog /\ r.result = "ok" /\ NoClamp(items)) =>
             /\ u.result = "ok"
             /\ u.db.drinks = drinks
             /\ u.db.transacts = transacts
             /\ u.db.accounts = accounts
             /\ \A x \in AccountIds, d \in DrinkIds :
                    CounterValue(u.db.kings, x, d) = CounterValue(kings, x, d)

\* undo has just taken back the consume call made right before it, which
\* clamped no drink; the counter that consume inserted now counts 0
C13_Witness ==
    /\ last.op = "undo_transaction"
    /\ last.result = "ok"
    /\ {"roundtrip", "drink"} \subseteq last.flags
    /\ \E i \in 1..Len(kings) : kings[i].quaffed = 0


\* the bottles that the entries of transaction t in rows count of drink d for
\* the accounts in A
RECURSIVE Counted(_, _, _, _)
Counted(rows, t, A, d) ==
    IF rows = <<>> THEN 0
    ELSE (IF Head(rows).tid = t /\ Head(rows).aid \in A /\ Head(rows).did = d
          THEN Head(rows).count ELSE 0)
         + Counted(Tail(rows), t, A, d)

\* the store after is the store before with transaction t taken back: every
\* drink has the bottles counted by t moved from empty to full and is otherwise
\* as it was, every leaderboard row counts what t counted for its pair less,
\* the ledger is the ledger before without the entries of t, the accounts are
\* as they were.  Entries of t with drink id 0 count for no drink and no row.
UndoneBy(before, t, after) ==
    /\ after.accounts = before.accounts
    /\ DOMAIN after.drinks = DOMAIN before.drinks
    /\ \A d \in DOMAIN before.drinks :
          after.drinks[d] =
             [before.drinks[d] EXCEPT
                !.bottles_full = @ + Counted(before.transacts, t, AccountIds, d),
                !.bottles_empty = @ - Counted(before.transacts, t, AccountIds, d)]
    /\ Len(after.kings) = Len(before.kings)
    /\ \A i \in 1..Len(before.kings) :
          after.kings[i] =
             [before.kings[i] EXCEPT
                !.quaffed = @ - Counted(before.transacts, t, {before.kings[i].aid},
                                        before.kings[i].did)]
    /\ after.transacts = SelectSeq(before.transacts, LAMBDA e : e.tid # t)

\* C14: undo_transaction(t) adds, for each entry of t with a drink id other
\* than 0, its count to bottles_full of that drink, takes it from bottles_empty
\* and takes it from the leaderboard counter of (account, drink), which exists;
\* it deletes exactly the entries with transaction id t.  Entries with drink
\* id 0 change no drink and no counter; entries of other transactions, other
\* drinks, other counters and the accounts are unchanged.
C14_UndoEffect ==
    \A t \in TransactIds :
        LET u == undo_transaction(DB, t)
        IN /\ u.result = "ok"
           /\ UndoneBy(DB, t, u.db)
           /\ \A i \in 1..Len(transacts) :
                 (transacts[i].tid = t /\ transacts[i].did # 0)
                    => CounterRows(kings, transacts[i].aid, transacts[i].did) # {}

\* undo has taken back a transaction with a drink entry and has left the
\* entries of other transactions in the log
C14_Witness ==
    /\ last.op = "undo_transaction"
    /\ last.result = "ok"
    /\ {"drink", "others"} \subseteq last.flags
    /\ transacts # <<>>


\* C15: an undo_transaction call that is cut short by a crash or ends in an
\* error leaves the store either as it was before the call or with the whole
\* of the undo: bottles restored, counters lowered and all entries of the
\* transaction deleted; never with some of these only.
C15_UndoCrashAtomic ==
    [][(last'.op = "undo_transaction" /\ last'.result # "ok")
         => \/ DB' = DB
            \/ \E t \in TransactIds : UndoneBy(DB, t, DB')]_vars

\* undo of a transaction with a drink entry was cut short after its commit,
\* and the store holds the whole of the undo
C15_Witness ==
    /\ last.op = "undo_transaction"
    /\ last.result = "crash"
    /\ {"drink", "committed"} \subseteq last.flags


\* C16: add_account(name, credit) inserts one new account; it appends exactly
\* one credit entry for the new account's id when a credit is given and is not
\* 0, and appends no ledger entry when the credit is absent or 0.
C16_NoEntryForZeroCredit ==
    [][\A name \in AccountNames, credit \in OptCredits :
          (last'.op = "add_account" /\ add_account(DB, name, credit) = Ret(DB', "ok"))
             => /\ accounts' = WithRow(accounts, NextRowId(accounts), name)
                /\ Appended(DB, DB') =
                      IF credit # None /\ credit[1] # 0
                      THEN << [tid |-> IF transacts = <<>> THEN 1
                                       ELSE MaxTid(transacts) + 1,
                               aid |-> NextRowId(accounts), did |-> 0, count |-> 1,
                               value |-> credit[1]] >>
                      ELSE << >>]_vars


\* C17: an add_account call with a credit that is cut short by a crash never
\* leaves the new account in the store without its credit entry.
C17_AddAccountCrashAtomic ==
    [][(/\ last'.op = "add_account"
        /\ last'.result = "crash"
        /\ "credit" \in last'.flags)
         => ~(accounts' # accounts /\ transacts' = transacts)]_vars


\* C18: add_credit(account_id, amount) appends exactly one ledger entry:
\* transaction id = the highest id of the log + 1 (1 on an empty log; stated
\* for a log whose ids are integers), the account id, drink id 0, count 1,
\* value = amount, for positive and negative amounts alike; it changes no
\* account, no drink, no leaderboard row and no entry that was in the log.
C18_AddCreditEntry ==
    \A a \in AccountIds, amount \in Credits :
        LET r == add_credit(DB, a, amount)
        IN IntegerLog =>
             /\ r.result = "ok"
             /\ r.db.transacts =
                   Append(transacts,
                          [tid |-> IF transacts = <<>> THEN 1 ELSE MaxTid(transacts) + 1,
                           aid |-> a, did |-> 0, count |-> 1, value |-> amount])
             /\ r.db.accounts = accounts
             /\ r.db.drinks = drinks
             /\ r.db.kings = kings

\* add_credit has appended a negative amount to a log that holds entries and
\* beside a leaderboard row
C18_Witness ==
    /\ last.op = "add_credit"
    /\ last.result = "ok"
    /\ Len(transacts) >= 2
    /\ transacts[Len(transacts)].value < 0
    /\ transacts[Len(transacts)].tid \in last.tids
    /\ kings # <<>>


\* C19: del_account(id) removes the account row, every ledger entry with that
\* account id and every leaderboard row with that account id, and leaves the
\* rest as it is: the other accounts, their ledger entries and leaderboard
\* rows in their order, and every drink row with its bottle counts.
C19_DelAccountEffect ==
    \A a \in AccountIds :
        LET r == del_account(DB, a)
        IN /\ r.result = "ok"
           /\ DOMAIN r.db.accounts = DOMAIN accounts \ {a}
           /\ \A x \in DOMAIN r.db.accounts : r.db.accounts[x] = accounts[x]
           /\ r.db.transacts = SelectSeq(transacts, LAMBDA e : e.aid # a)
           /\ r.db.kings = SelectSeq(kings, LAMBDA e : e.aid # a)
           /\ r.db.drinks = drinks

\* del_account has deleted an account that had ledger entries and leaderboard
\* rows, and entries and rows of another account are still there
C19_Witness ==
    /\ last.op = "del_account"
    /\ last.result = "ok"
    /\ {"account", "ledger", "kings", "others"} \subseteq last.flags
    /\ transacts # <<>>
    /\ kings # <<>>

\* C20: del_drink(id) sets deleted = true and kings = false on that drink and
\* changes nothing else: the row stays in the table with its name, prices,
\* deposit and bottle counts, the other drinks, the accounts, the ledger and
\* the leaderboard rows are as they were.
C20_DelDrinkEffect ==
    \A d \in DrinkIds :
        LET r == del_drink(DB, d)
        IN /\ r.result = "ok"
           /\ DOMAIN r.db.drinks = DOMAIN drinks
           /\ \A x \in DOMAIN drinks :
                 r.db.drinks[x] =
                    IF x = d THEN [name |-> drinks[x].name,
                                   sales_price |-> drinks[x].sales_price,
                                   purchase_price |-> drinks[x].purchase_price,
                                   deposit |-> drinks[x].deposit,
                                   bottles_full |-> drinks[x].bottles_full,
                                   bottles_empty |-> drinks[x].bottles_empty,
                                   deleted |-> TRUE, kings |-> FALSE]
                    ELSE drinks[x]
           /\ r.db.accounts = accounts
           /\ r.db.transacts = transacts
           /\ r.db.kings = kings

\* del_drink has marked a drink that was tracked for the leaderboard and that
\* ledger entries and a leaderboard row refer to
C20_Witness ==
    /\ last.op = "del_drink"
    /\ last.result = "ok"
    /\ {"tracked", "referenced"} \subseteq last.flags
    /\ \E d \in DOMAIN drinks :
          /\ drinks[d].deleted
          /\ ~drinks[d].kings
          /\ \E i \in 1..Len(transacts) : transacts[i].did = d
          /\ \E i \in 1..Len(kings) : kings[i].did = d


\* C21: drinks() returns exactly the drinks with deleted = false, each once
\* and with the values of its row, in ascending order of name; a drink on
\* which del_drink has been called is in no list returned then, and a drink
\* that is deleted is still deleted, and so in no list, after every further
\* step.
C21_DrinksListing ==
    /\ [](/\ drinks_rows(DB) # {}
          /\ \A r \in drinks_rows(DB) :
                /\ { r[i].did : i \in 1..Len(r) }
                      = { d \in DOMAIN drinks : ~drinks[d].deleted }
                /\ \A i, j \in 1..Len(r) :
                      i < j => /\ r[i].did # r[j].did
                               /\ NameRank(r[i].name) <= NameRank(r[j].name)
                /\ \A i \in 1..Len(r) :
                      /\ r[i].name = drinks[r[i].did].name
                      /\ r[i].sales_price = drinks[r[i].did].sales_price
                      /\ r[i].bottles_full = drinks[r[i].did].bottles_full
                      /\ r[i].bottles_empty = drinks[r[i].did].bottles_empty
          /\ \A d \in DOMAIN drinks :
                \A r \in drinks_rows(del_drink(DB, d).db) :
                    \A i \in 1..Len(r) : r[i].did # d)
    /\ [][\A d \in DOMAIN drinks :
             drinks[d].deleted =>
                \A r \in drinks_rows(DB') : \A i \in 1..Len(r) : r[i].did # d]_vars

\* drinks() was called on a store with a deleted drink and one that is not
C21_Witness ==
    /\ last.op = "drinks"
    /\ "deleted" \in last.flags
    /\ \E d \in DOMAIN drinks : ~drinks[d].deleted


\* what transactions() shows of a ledger entry: no name for drink id 0, the
\* name of the drink otherwise, deleted or not
Shown(e) ==
    [tid |-> e.tid,
     name |-> IF e.did = 0 THEN None ELSE <<drinks[e.did].name>>,
     count |-> e.count, value |-> e.value]

\* C22: transactions(account_id) returns exactly the ledger entries of that
\* account, one row per entry, in ascending order of transaction id; the row
\* of an entry with drink id 0 carries no drink name, the row of any other
\* entry carries the name of its drink, also when the drink has been marked
\* deleted since.
C22_TransactionsListing ==
    \A a \in AccountIds :
        LET own == { k \in 1..Len(transacts) : transacts[k].aid = a }
        IN /\ transactions(DB, a) # {}
           /\ \A r \in transactions(DB, a) :
                 /\ Len(r) = Cardinality(own)
                 /\ \A k \in own :
                       Cardinality({ i \in 1..Len(r) : r[i] = Shown(transacts[k]) })
                         = Cardinality({ j \in own :
                                           Shown(transacts[j]) = Shown(transacts[k]) })
                 /\ \A i, j \in 1..Len(r) : i < j => r[i].tid <= r[j].tid

\* transactions() was called for an account that has a credit entry and two
\* entries of one transaction, one of them for a drink deleted since, while
\* another account has entries too
C22_Witness ==
    /\ last.op = "transactions"
    /\ {"credit", "deleted", "shared", "others"} \subseteq last.flags


\* C23: set_drink(id, fields) with seven fields overwrites name, sales_price,
\* purchase_price, deposit, bottles_full, bottles_empty and kings of the drink
\* with that id and nothing else: its id and its deleted flag, the other
\* drinks, the accounts, the ledger and the leaderboard rows are unchanged; for
\* an id without a drinks row nothing changes.
C23_SetDrinkEffect ==
    \A d \in DrinkIds, f \in DrinkFieldLists :
        LET r == set_drink(DB, d, f)
        IN /\ r.result = "ok"
           /\ DOMAIN r.db.drinks = DOMAIN drinks
           /\ \A x \in DOMAIN drinks :
                 r.db.drinks[x] =
                    IF x = d THEN [name |-> f[1], sales_price |-> f[2],
                                   purchase_price |-> f[3], deposit |-> f[4],
                                   bottles_full |-> f[5], bottles_empty |-> f[6],
                                   deleted |-> drinks[x].deleted, kings |-> f[7]]
                    ELSE drinks[x]
           /\ r.db.accounts = accounts
           /\ r.db.transacts = transacts
           /\ r.db.kings = kings

\* set_drink has written seven fields over a drink that is marked deleted,
\* and the drink is still deleted, beside ledger entries
C23_Witness ==
    /\ last.op = "set_drink"
    /\ last.result = "ok"
    /\ {"existing", "deleted", "seven"} \subseteq last.flags
    /\ \E d \in DOMAIN drinks : drinks[d].deleted /\ drinks[d].kings
    /\ transacts # <<>>


\* C24: set_drink called with a field list whose length is not seven, the
\* empty list included, takes no action: it returns without raising and the
\* store is unchanged.
C24_BadLengthIsSilent ==
    [][\A d \in DrinkIds, f \in BadFieldLists :
          (last'.op = "set_drink" /\ set_drink(DB, d, f) = Ret(DB', last'.result))
             => /\ last'.result = "nothing done"
                /\ DB' = DB]_vars


\* C25: add_drink(fields) inserts one new drinks row under an id that no drink
\* holds, with the seven values in the order name, sales_price, purchase_price,
\* deposit, bottles_full, bottles_empty, kings and with deleted = false; the
\* drinks that exist and the other tables are unchanged.
C25_AddDrinkEffect ==
    \A f \in DrinkFieldLists :
        LET r == add_drink(DB, f)
        IN /\ r.result = "ok"
           /\ \E d \in (DOMAIN r.db.drinks) \ (DOMAIN drinks) :
                 /\ DOMAIN r.db.drinks = (DOMAIN drinks) \cup {d}
                 /\ r.db.drinks[d] = [name |-> f[1], sales_price |-> f[2],
                                      purchase_price |-> f[3], deposit |-> f[4],
                                      bottles_full |-> f[5], bottles_empty |-> f[6],
                                      deleted |-> FALSE, kings |-> f[7]]
           /\ \A x \in DOMAIN drinks : r.db.drinks[x] = drinks[x]
           /\ r.db.accounts = accounts
           /\ r.db.transacts = transacts
           /\ r.db.kings = kings

\* add_drink has added a second drink, tracked and not deleted, beside a
\* drink that is marked deleted
C25_Witness ==
    /\ last.op = "add_drink"
    /\ last.result = "ok"
    /\ \E d, e \in DOMAIN drinks :
          /\ d < e
          /\ drinks[d].deleted
          /\ drinks[e].kings /\ ~drinks[e].deleted

\* what account x has drunk of the drinks named n, over the drink ids in D
RECURSIVE NameSum(_, _, _)
NameSum(x, n, D) ==
    IF D = {} THEN 0
    ELSE LET d == CHOOSE e \in D : TRUE
         IN (IF drinks[d].name = n THEN CounterValue(kings, x, d) ELSE 0)
            + NameSum(x, n, D \ {d})

\* C26: every list kings() can return has at most one row per drink name, and
\* rows only for names that have a drink with kings set and deleted unset; the
\* row of a name is (account name, drink name, m), m the largest sum, over the
\* accounts, of quaffed across all drink ids with that name, and an account of
\* the row's account name attains m; the rows ascend by account name.
C26_KingsListing ==
    /\ kings_rows(DB) # {}
    /\ \A r \in kings_rows(DB) :
          /\ \A i, j \in 1..Len(r) :
                i < j => /\ r[i][2] # r[j][2]
                         /\ NameRank(r[i][1]) <= NameRank(r[j][1])
          /\ \A i \in 1..Len(r) :
                /\ \E d \in DOMAIN drinks :
                      drinks[d].name = r[i][2] /\ drinks[d].kings /\ ~drinks[d].deleted
                /\ \A x \in DOMAIN accounts :
                      NameSum(x, r[i][2], DOMAIN drinks) <= r[i][3]
                /\ \E x \in DOMAIN accounts :
                      /\ accounts[x] = r[i][1]
                      /\ NameSum(x, r[i][2], DOMAIN drinks) = r[i][3]

\* kings() has run on a store in which one account has drunk of two drinks of
\* one name, and the row of that name carries the sum of both counters
C26_Witness ==
    /\ last.op = "kings"
    /\ {"rows", "multi"} \subseteq last.flags
    /\ \E r \in kings_rows(DB), x \in DOMAIN accounts, d, e \in DOMAIN drinks :
          /\ Len(r) = 1
          /\ d # e
          /\ drinks[d].name = r[1][2] /\ drinks[e].name = r[1][2]
          /\ CounterValue(kings, x, d) > 0 /\ CounterValue(kings, x, e) > 0
          /\ r[1] = <<accounts[x], drinks[d].name,
                      CounterValue(kings, x, d) + CounterValue(kings, x, e)>>

\* C27: when no drink has kings set and deleted unset, kings() returns the
\* empty list and nothing else, whatever rows the kings table holds.
C27_KingsEmpty ==
    (\A d \in DOMAIN drinks : ~drinks[d].kings \/ drinks[d].deleted)
        => kings_rows(DB) = {<<>>}

\* kings() has run on a store whose kings table counts a drink that del_drink
\* has marked deleted, and in which no drink is left with kings set
C27_Witness ==
    /\ last.op = "kings"
    /\ {"counters", "untracked"} \subseteq last.flags
    /\ \E i \in 1..Len(kings) :
          /\ kings[i].quaffed > 0
          /\ kings[i].aid \in DOMAIN accounts
          /\ kings[i].did \in DOMAIN drinks
          /\ drinks[kings[i].did].deleted
    /\ \A d \in DOMAIN drinks : ~drinks[d].kings \/ drinks[d].deleted

\* C28: the kings table holds at most one row per (aid, did) pair, in every
\* state the operations reach from the empty store.
C28_OneCounterPerPair ==
    \A i, j \in 1..Len(kings) :
        (kings[i].aid = kings[j].aid /\ kings[i].did = kings[j].did) => i = j

\* a consume request that lists one drink twice has run right after an undo
\* that left the counter row of the pair in place
C28_Witness ==
    /\ last.op = "consume_drinks"
    /\ last.result = "ok"
    /\ {"dup", "afterundo"} \subseteq last.flags
    /\ \E i \in 1..Len(kings) : kings[i].quaffed >= 2

\* C29: with positive amounts in every consume request, every row of the
\* kings table has quaffed >= 0 in every state the operations reach from the
\* empty store, whatever the order of the undo calls and the consume calls.
C29_CountersNotNegative ==
    \A i \in 1..Len(kings) : kings[i].quaffed >= 0

\* undo has taken back a consume call that was not the latest one: a later
\* consume entry is still in the ledger and its counter still counts it
C29_Witness ==
    /\ last.op = "undo_transaction"
    /\ last.result = "ok"
    /\ "drink" \in last.flags
    /\ \E t \in allocated \ Tids(DB), i \in 1..Len(transacts), j \in 1..Len(kings) :
          /\ transacts[i].tid > t
          /\ transacts[i].did # 0
          /\ kings[j].aid = transacts[i].aid
          /\ kings[j].did = transacts[i].did
          /\ kings[j].quaffed = transacts[i].count

\* C30: every ledger entry has count > 0, whatever amounts consume_drinks is
\* called with: add_credit writes count 1 and consume_drinks writes no entry
\* whose count is zero or negative.
C30_CountsPositive ==
    \A i \in 1..Len(transacts) : transacts[i].count > 0

\* the entries of the ledger before a step are all in the ledger after it, in
\* their places and with their fields as they were
EntriesKept ==
    /\ Len(transacts) <= Len(transacts')
    /\ \A i \in 1..Len(transacts) : transacts'[i] = transacts[i]

\* the step is an undo call that removed the entries of one transaction id and
\* left every other entry as it was
RemovedByUndo ==
    /\ last'.op = "undo_transaction"
    /\ \E t \in TransactIds :
          LET Other(e) == e.tid # t
          IN transacts' = SelectSeq(transacts, Other)

\* the step is a del_account call that removed the entries of one account and
\* left every other entry as it was
RemovedByDelAccount ==
    /\ last'.op = "del_account"
    /\ \E a \in AccountIds :
          LET Other(e) == e.aid # a
          IN transacts' = SelectSeq(transacts, Other)

\* C31 as stated: no step changes a field of a ledger entry, and a step that
\* removes entries is an undo of their transaction id.
C31_OnlyUndoRemoves == [][EntriesKept \/ RemovedByUndo]_vars

\* C31: no step changes a field of a ledger entry; a step that removes entries
\* is an undo of their transaction id or a del_account of their account, and
\* it leaves every other entry as it was.
C31_EntriesImmutable == [][EntriesKept \/ RemovedByUndo \/ RemovedByDelAccount]_vars

\* set_drink has given a drink a new price while the ledger holds an entry of
\* that drink written at the old price
C31_Witness ==
    /\ last.op = "set_drink"
    /\ last.result = "ok"
    /\ \E i \in 1..Len(transacts) :
          /\ transacts[i].did \in DOMAIN drinks
          /\ transacts[i].value # -drinks[transacts[i].did].sales_price

\* C32: every ledger entry with did # 0 and every row of kings names a drink
\* that has a row in drinks, so undo_transaction of any transaction id finds
\* the drinks row of every entry it takes back.
C32_DrinkRowsExist ==
    /\ \A i \in 1..Len(transacts) :
          transacts[i].did # 0 => transacts[i].did \in DOMAIN drinks
    /\ \A i \in 1..Len(kings) : kings[i].did \in DOMAIN drinks
    /\ \A t \in TransactIds : undo_transaction(DB, t).result = "ok"

\* undo has taken back an entry of a drink that del_drink had marked deleted
\* before: the row was found, and its counter stands at zero
C32_Witness ==
    /\ last.op = "undo_transaction"
    /\ last.result = "ok"
    /\ "drink" \in last.flags
    /\ \E d \in DOMAIN drinks, i \in 1..Len(kings) :
          /\ drinks[d].deleted
          /\ kings[i].did = d
          /\ kings[i].quaffed = 0
          /\ \A j \in 1..Len(transacts) : transacts[j].did # d

\* C33: in every reachable state a drink with deleted set has kings unset,
\* also after set_drink has run on a drink marked deleted with kings set in
\* its fields.
C33_DeletedNeverTracked ==
    \A d \in DOMAIN drinks : drinks[d].deleted => ~drinks[d].kings

\* C34: a consume call and an undo call remove no row of the kings table:
\* every row stays in its place for its (aid, did) pair, a consume call never
\* lowers its quaffed and an undo call never raises it, so a counter that undo
\* brings to zero stays in the table with quaffed = 0.
C34_CounterRowsStay ==
    [][last'.op \in {"consume_drinks", "undo_transaction"}
         => /\ Len(kings) <= Len(kings')
            /\ \A i \in 1..Len(kings) :
                  /\ kings'[i].aid = kings[i].aid
                  /\ kings'[i].did = kings[i].did
                  /\ last'.op = "consume_drinks" => kings'[i].quaffed >= kings[i].quaffed
                  /\ last'.op = "undo_transaction" => kings'[i].quaffed <= kings[i].quaffed]_vars

\* undo has taken back the only consumption of a pair: the ledger holds no
\* entry of the pair and its row is in the table, counting zero
C34_Witness ==
    /\ last.op = "undo_transaction"
    /\ last.result = "ok"
    /\ "drink" \in last.flags
    /\ \E i \in 1..Len(kings) :
          /\ kings[i].quaffed = 0
          /\ ~drinks[kings[i].did].deleted
          /\ \A j \in 1..Len(transacts) :
                transacts[j].aid # kings[i].aid \/ transacts[j].did # kings[i].did

\* C35: in a store whose transaction ids are integers, a successful consume
\* call followed at once by undo of its transaction id leaves every drink that clamped (requested quantity q above its
\* bottles_full f, with bottles_empty e) with bottles_empty = e and
\* bottles_full = q, so that bottles_full + bottles_empty has grown by q - f.
C35_ClampedRoundTrip ==
    \A a \in AccountIds, items \in ItemLists :
        LET r == consume_drinks(DB, a, items)
            u == undo_transaction(r.db, Appended(DB, r.db)[1].tid)
        IN (IntegerLog /\ r.result = "ok") =>
             \A d \in DistinctDrinks(items) :
                LET q == Qty(items, d)
                    f == drinks[d].bottles_full
                    e == drinks[d].bottles_empty
                IN q > f =>
                     /\ u.result = "ok"
                     /\ u.db.drinks[d].bottles_empty = e
                     /\ u.db.drinks[d].bottles_full = q
                     /\ u.db.drinks[d].bottles_full + u.db.drinks[d].bottles_empty
                           = f + e + (q - f)

\* undo has just taken back the consume call made right before it, which
\* clamped a drink: that drink now holds more full bottles than the one it
\* held at the start
C35_Witness ==
    /\ last.op = "undo_transaction"
    /\ last.result = "ok"
    /\ {"clampedtrip", "drink"} \subseteq last.flags
    /\ \E d \in DOMAIN drinks : drinks[d].bottles_full > 1

\* the sum of count over the ledger entries of account a and drink d
RECURSIVE LedgerCount(_, _, _)
LedgerCount(rows, a, d) ==
    IF rows = <<>> THEN 0
    ELSE (IF Head(rows).aid = a /\ Head(rows).did = d THEN Head(rows).count ELSE 0)
         + LedgerCount(Tail(rows), a, d)

\* C36: in every state that complete calls reach, the counter of each
\* (account, drink) pair equals the sum of count over the ledger entries of
\* that account and drink, and a pair without a row in kings has no ledger
\* entry.
C36_CounterIsLedgerSum ==
    \A x \in AccountIds, d \in DrinkIds :
        /\ CounterValue(kings, x, d) = LedgerCount(transacts, x, d)
        /\ CounterRows(kings, x, d) = {}
             => \A i \in 1..Len(transacts) :
                   transacts[i].aid # x \/ transacts[i].did # d

\* a pair has entries of two transactions in the ledger and its counter is
\* their sum, after a consume call
C36_Witness ==
    /\ last.op = "consume_drinks"
    /\ last.result = "ok"
    /\ \E i, j \in 1..Len(transacts), n \in 1..Len(kings) :
          /\ transacts[i].tid # transacts[j].tid
          /\ transacts[i].aid = kings[n].aid /\ transacts[j].aid = kings[n].aid
          /\ transacts[i].did = kings[n].did /\ transacts[j].did = kings[n].did
          /\ kings[n].quaffed = transacts[i].count + transacts[j].count

\* C37: ledger entries that share a transaction id were written by one call:
\* they have one account id and are entries of pairwise distinct drinks, none
\* of them a credit entry (a credit entry shares its id with no other entry).
C37_OneCallPerTid ==
    \A i, j \in 1..Len(transacts) :
        (i # j /\ transacts[i].tid = transacts[j].tid)
           => /\ transacts[i].aid = transacts[j].aid
              /\ transacts[i].did # 0
              /\ transacts[j].did # 0
              /\ transacts[i].did # transacts[j].did

\* C38: right after an add_account call without credit, transactions() of the
\* new account id is empty and no row of kings carries that id.
C38_NewAccountNoHistory ==
    [][(last'.op = "add_account" /\ last'.result = "ok" /\ last'.tids = {})
         => \A x \in DOMAIN accounts' \ DOMAIN accounts :
               /\ transactions(DB', x) = {<<>>}
               /\ \A i \in 1..Len(kings') : kings'[i].aid # x]_vars

\* C39: consume_drinks does not take a drink marked deleted for a missing
\* one: a request whose drinks all have a row is not refused, and when the
\* call succeeds such a drink gets its one ledger entry (summed quantity,
\* value = -sales_price), its bottle counts change and its counter grows as
\* for any drink, and it stays marked deleted.
C39_ConsumeDeletedDrink ==
    \A a \in AccountIds, items \in ItemLists :
        LET r == consume_drinks(DB, a, items)
            new == Appended(DB, r.db)
        IN \A d \in DistinctDrinks(items) \cap DOMAIN drinks :
              drinks[d].deleted =>
                /\ DistinctDrinks(items) \subseteq DOMAIN drinks => r.result # "NotFound"
                /\ r.result = "ok" =>
                      LET q == Qty(items, d)
                          f == drinks[d].bottles_full
                      IN /\ \E i \in 1..Len(new) :
                               /\ new[i].did = d /\ new[i].aid = a
                               /\ new[i].count = q
                               /\ new[i].value = -drinks[d].sales_price
                               /\ \A j \in 1..Len(new) : new[j].did = d => j = i
                         /\ r.db.drinks[d] =
                               [drinks[d] EXCEPT
                                  !.bottles_full = IF f - q < 0 THEN 0 ELSE f - q,
                                  !.bottles_empty = @ + q]
                         /\ CounterValue(r.db.kings, a, d) = CounterValue(kings, a, d) + q
                         /\ r.db.drinks[d].deleted

\* a consume call has written a ledger entry for a drink that was marked
\* deleted before the call, and the drink is still marked deleted
C39_Witness ==
    /\ last.op = "consume_drinks"
    /\ last.result = "ok"
    /\ \E i \in 1..Len(transacts), n \in 1..Len(kings) :
          /\ transacts[i].tid \in last.tids
          /\ transacts[i].did \in DOMAIN drinks
          /\ drinks[transacts[i].did].deleted
          /\ kings[n].did = transacts[i].did
          /\ kings[n].aid = transacts[i].aid
          /\ kings[n].quaffed >= transacts[i].count

====
